---- MODULE Spec2Model ----
(***************************************************************************)
(* Model of rr's DiversionSession (src/src/DiversionSession.cc): the       *)
(* per-step control loop diversion_step, the syscall classifier            *)
(* process_syscall_arch, the live executor execute_syscall and the exit    *)
(* handler handle_ptrace_exit_event.                                       *)
(*                                                                         *)
(* One call of diversion_step is a sequence of actions, one per block of   *)
(* the function, sequenced by pc.  The tracee and the kernel are the       *)
(* environment: what the wait after a resume reports and what an injected  *)
(* syscall returns are drawn from small sets.                              *)
(***************************************************************************)
EXTENDS Integers, Sequences, FiniteSets, TLC

\* ------------------------------------------------------------------ bounds
NumTasks == 1            \* tasks owned by the session after construction
MaxRet == 1              \* an injected syscall returns a value in -1..MaxRet

TaskIds == 1..NumTasks
KernelRets == (0 - 1)..MaxRet

\* --------------------------------------------------------- value domains
Archs == {"x86", "x86_64"}

RUN_CONTINUE == "RUN_CONTINUE"
RUN_SINGLESTEP == "RUN_SINGLESTEP"
RUN_SINGLESTEP_FAST_FORWARD == "RUN_SINGLESTEP_FAST_FORWARD"
RunCommands == {RUN_CONTINUE, RUN_SINGLESTEP, RUN_SINGLESTEP_FAST_FORWARD}

DIVERSION_CONTINUE == "DIVERSION_CONTINUE"
DIVERSION_EXITED == "DIVERSION_EXITED"
NoStatus == "unset"

PTRACE_EVENT_EXIT == "PTRACE_EVENT_EXIT"
NoPtraceEvent == "none"

\* Signals: 0 is "no signal"; the values are those of SIGTRAP and SIGUSR1.
StopSignals == {5}
DeliverableSignals == {0, 10}

\* The six argument registers of a syscall, as one tuple.
ArgTuples == {<<1, 2, 3, 4, 5, 6>>, <<6, 5, 4, 3, 2, 1>>}

\* The syscall-result register at a syscall-entry stop (-ENOSYS, or stale).
EntryResults == {0 - 38, 7}

\* Arch::<name>: the per-architecture syscall numbers the classifier names,
\* and exit_group.  x86_64 has no ipc syscall: its constant is no valid number.
SyscallTable ==
  [x86    |-> [ioctl |-> 54, ipc |-> 117, kill |-> 37, rt_sigqueueinfo |-> 178,
               rt_tgsigqueueinfo |-> 335, tgkill |-> 270, tkill |-> 238,
               exit_group |-> 252],
   x86_64 |-> [ioctl |-> 16, ipc |-> 0 - 1, kill |-> 62, rt_sigqueueinfo |-> 129,
               rt_tgsigqueueinfo |-> 297, tgkill |-> 234, tkill |-> 200,
               exit_group |-> 231]]

SyscallNames == {"ioctl", "ipc", "kill", "rt_sigqueueinfo", "rt_tgsigqueueinfo",
                 "tgkill", "tkill", "exit_group"}

\* The syscall numbers a tracee attempts in the model: every valid number of
\* the table, for a task of either architecture.
SyscallNumbers ==
  {n \in {SyscallTable[a][s] : a \in Archs, s \in SyscallNames} : n >= 0}

\* BreakStatus: watchpoints_hit abstracts "the set of watchpoints hit is not empty".
BreakStatuses ==
  [breakpoint_hit : BOOLEAN, watchpoints_hit : BOOLEAN, singlestep_complete : BOOLEAN]

\* A default-constructed DiversionResult.
NewDiversionResult ==
  [status |-> NoStatus,
   break_status |-> [breakpoint_hit |-> FALSE, watchpoints_hit |-> FALSE,
                     singlestep_complete |-> FALSE]]

NoRegs == [original_syscallno |-> 0 - 1, args |-> <<0, 0, 0, 0, 0, 0>>, syscall_result |-> 0]

\* --------------------------------------------------------------- state
VARIABLES
  debug_build,        \* TRUE: DEBUG_ASSERT is compiled in; FALSE: it is a no-op
  tasks,              \* Session::tasks(): the tasks the session owns (not freed)
  vms,                \* Session::vms(): the address spaces of the owned tasks
  emu_fs,             \* emu_fs: the address spaces that map an emulated file
  task,               \* per task: arch, preload_globals, ptrace_event, the
                      \* in_diversion byte, the syscallbuf lock, did_kill, detached
  pc,                 \* position of the running diversion_step call
  cur,                \* diversion_step's parameter t
  command,            \* diversion_step's parameter command
  signal_to_deliver,  \* diversion_step's parameter signal_to_deliver
  result,             \* diversion_step's local result
  regs,               \* t->regs(): registers of the task being stepped
  desched,            \* t->is_desched_event_syscall() at the current stop
  stop_sig,           \* t->stop_sig() at the current stop
  log,                \* calls made on the task by this step, in order
  resumes,            \* arguments of the resume_execution calls of this step
  injected,           \* syscalls issued to the kernel by this step
  start_event,        \* the task's ptrace event when this step was called
  stop_kind,          \* what the wait after the resume of this step reported
  entry_regs,         \* the registers as the wait of this step left them
  diag,               \* what diagnose_debugger_trap returned in this step
  uaf,                \* the task was used after handle_ptrace_exit_event freed it
  dtor_killed         \* the tasks the destructor's kill_all_tasks terminated

vars == <<debug_build, tasks, vms, emu_fs, task, pc, cur, command, signal_to_deliver, result,
          regs, desched, stop_sig, log, resumes, injected, start_event, stop_kind,
          entry_regs, diag, uaf, dtor_killed>>

\* -------------------------------------------------------------- helpers
Count(s, e) == Cardinality({i \in 1..Len(s) : s[i] = e})

\* Every occurrence of b in s has an a before it.
Precedes(s, a, b) ==
  \A j \in 1..Len(s) : s[j] = b => \E i \in 1..(j - 1) : s[i] = a

\* A use of the task pointer t: undefined behaviour once t has been deleted.
UseTask == uaf' = (uaf \/ cur \notin tasks)

Init ==
  /\ debug_build \in BOOLEAN
  /\ tasks = TaskIds
  /\ vms = TaskIds
  /\ emu_fs \in SUBSET TaskIds
  /\ task \in [TaskIds -> [arch : Archs, preload_globals : BOOLEAN,
                           ptrace_event : {NoPtraceEvent}, in_diversion : {0},
                           syscallbuf_locked : {0}, did_kill : {FALSE},
                           detached : {FALSE}]]
  /\ pc = "idle"
  /\ cur = 1
  /\ command = RUN_CONTINUE
  /\ signal_to_deliver = 0
  /\ result = NewDiversionResult
  /\ regs = NoRegs
  /\ desched = FALSE
  /\ stop_sig = 0
  /\ log = <<>>
  /\ resumes = <<>>
  /\ injected = <<>>
  /\ start_event = NoPtraceEvent
  /\ stop_kind = "none"
  /\ entry_regs = NoRegs
  /\ diag = NewDiversionResult.break_status
  /\ uaf = FALSE
  /\ dtor_killed = {}


\* ------------------------------------------------- the code, as operators

\* DEBUG_ASSERT(cond): aborts when cond fails in a build that compiles debug
\* assertions in, and is a no-op otherwise.
DebugAssertFails(cond) == debug_build /\ ~cond

\* Mutant: the exit check before the resume is missing.
ExitedBeforeResume_Never(ev) == FALSE

\* The tests `t->ptrace_event() == PTRACE_EVENT_EXIT` of diversion_step.
ExitedBeforeResume(ev) == ev = PTRACE_EVENT_EXIT
ExitedAfterResume(ev) == ev = PTRACE_EVENT_EXIT

\* Mutant: the pending signal is not looked at.
StopSigPending_Ignored(sig) == FALSE

\* `if (t->stop_sig())`.
StopSigPending(sig) == sig # 0

\* Mutant: the assertion is dropped.
SinglestepAssertion_Dropped(bs, cmd) == TRUE

\* The condition of ASSERT(t, !singlestep_complete || command == RUN_SINGLESTEP).
SinglestepAssertion(bs, cmd) == ~bs.singlestep_complete \/ cmd = RUN_SINGLESTEP

\* diagnose_debugger_trap(t, command): any break status.
DiagnoseDebuggerTrap(t, cmd) == BreakStatuses

\* check_for_watchpoint_changes(t, break_status): may flag watchpoints.
CheckForWatchpointChanges(t, bs) ==
  {[bs EXCEPT !.watchpoints_hit = w] : w \in {bs.watchpoints_hit, TRUE}}

\* The kernel ends the process on exit_group: the task then reports the
\* exit event.
KernelExits(arch, no) == no = SyscallTable[arch].exit_group

\* Mutant: the syscall buffer is not locked.
DisableSyscallbuf_NoLock(tr) ==
  [tr EXCEPT !.in_diversion = IF tr.preload_globals THEN 1 ELSE @]

\* "Disable syscall buffering during diversions": the task record after the
\* write of in_diversion (when preload_globals is set) and set_syscallbuf_locked(1).
DisableSyscallbuf(tr) ==
  [tr EXCEPT !.in_diversion = IF tr.preload_globals THEN 1 ELSE @,
             !.syscallbuf_locked = 1]

DisableSyscallbufLog(tr) ==
  (IF tr.preload_globals THEN <<"write_in_diversion">> ELSE <<>>)
    \o <<"set_syscallbuf_locked">>

\* Mutant: the fast-forward command is taken for a single step.
ResumeRequest_FastForwardSteps(cmd) ==
  IF cmd = RUN_CONTINUE THEN "RESUME_SYSEMU" ELSE "RESUME_SYSEMU_SINGLESTEP"

\* The resume mode of the switch on command; "FATAL" for the default label.
ResumeRequest(cmd) ==
  IF cmd = RUN_CONTINUE THEN "RESUME_SYSEMU"
  ELSE IF cmd = RUN_SINGLESTEP THEN "RESUME_SYSEMU_SINGLESTEP"
  ELSE "FATAL"

\* Mutant: the tkill label is missing.
Suppressed_MissingTkill(arch) ==
  {SyscallTable[arch].ipc, SyscallTable[arch].kill,
   SyscallTable[arch].rt_sigqueueinfo, SyscallTable[arch].rt_tgsigqueueinfo,
   SyscallTable[arch].tgkill}

\* The case labels of process_syscall_arch's switch.
Suppressed(arch) ==
  {SyscallTable[arch].ipc, SyscallTable[arch].kill,
   SyscallTable[arch].rt_sigqueueinfo, SyscallTable[arch].rt_tgsigqueueinfo,
   SyscallTable[arch].tgkill, SyscallTable[arch].tkill}

\* Mutant: the desched ioctl is not recognised.
IsDeschedIoctl_Never(arch, syscallno, d) == FALSE

\* `syscallno == Arch::ioctl && t->is_desched_event_syscall()`.
IsDeschedIoctl(arch, syscallno, d) == syscallno = SyscallTable[arch].ioctl /\ d

\* Mutant: the registers with the result are not written back.
FinishEmulatedSyscallWithRet_NoSetRegs(r, ret) ==
  [regs |-> r, log |-> <<"finish_emulated_syscall">>, injected |-> <<>>]

\* finish_emulated_syscall_with_ret(t, ret): the effect on the registers, the
\* calls made on the task, the syscalls issued.
FinishEmulatedSyscallWithRet(r, ret) ==
  [regs |-> [r EXCEPT !.syscall_result = ret],
   log |-> <<"finish_emulated_syscall", "set_regs">>,
   injected |-> <<>>]

\* Mutant: the result of the injected syscall is not copied into the
\* registers that are written back.
ExecuteSyscall_NoResultCopy(r, kret) ==
  [regs |-> r,
   log |-> <<"finish_emulated_syscall", "remote_open", "remote_syscall",
             "remote_close">>,
   injected |-> <<[no |-> r.original_syscallno, args |-> r.args, ret |-> kret]>>]

\* execute_syscall(t).  AutoRemoteSyscalls copies the task's registers when it
\* is opened and writes its copy back when it is closed; remote.syscall runs
\* the syscall in the tracee, which leaves the kernel's return value kret in
\* the task's registers.
ExecuteSyscall(r, kret) ==
  LET remote_regs == r
      call == [no |-> remote_regs.original_syscallno,
               args |-> <<remote_regs.args[1], remote_regs.args[2],
                          remote_regs.args[3], remote_regs.args[4],
                          remote_regs.args[5], remote_regs.args[6]>>,
               ret |-> kret]
      t_regs == [r EXCEPT !.syscall_result = kret]
      restored == [remote_regs EXCEPT !.syscall_result = t_regs.syscall_result]
  IN [regs |-> restored,
      log |-> <<"finish_emulated_syscall", "remote_open", "remote_syscall",
                "remote_set_syscall_result", "remote_close">>,
      injected |-> <<call>>]

\* Mutant: a suppressed syscall is finished with a faked result 0.
ProcessSyscallArch_SuppressedFinished(arch, r, d, syscallno, kret) ==
  IF IsDeschedIoctl(arch, syscallno, d) \/ syscallno \in Suppressed(arch)
  THEN FinishEmulatedSyscallWithRet(r, 0)
  ELSE ExecuteSyscall(r, kret)

\* Mutant: the suppressed case labels fall through to the live execution.
ProcessSyscallArch_SuppressFallsThrough(arch, r, d, syscallno, kret) ==
  IF IsDeschedIoctl(arch, syscallno, d)
  THEN FinishEmulatedSyscallWithRet(r, 0)
  ELSE IF syscallno \in Suppressed(arch)
  THEN [regs |-> ExecuteSyscall(r, kret).regs,
        log |-> <<"suppress">> \o ExecuteSyscall(r, kret).log,
        injected |-> ExecuteSyscall(r, kret).injected]
  ELSE ExecuteSyscall(r, kret)

\* process_syscall_arch<Arch>(t, syscallno).
ProcessSyscallArch(arch, r, d, syscallno, kret) ==
  IF IsDeschedIoctl(arch, syscallno, d)
  THEN FinishEmulatedSyscallWithRet(r, 0)
  ELSE IF syscallno \in Suppressed(arch)
  THEN [regs |-> r, log |-> <<"suppress">>, injected |-> <<>>]
  ELSE ExecuteSyscall(r, kret)

\* Mutant: the x86 instantiation is used for every task.
ProcessSyscall_AlwaysX86(t_arch, r, d, syscallno, kret) ==
  ProcessSyscallArch("x86", r, d, syscallno, kret)

\* process_syscall(t, syscallno): RR_ARCH_FUNCTION selects the instantiation
\* for t->arch().
ProcessSyscall(t_arch, r, d, syscallno, kret) ==
  IF t_arch = "x86" THEN ProcessSyscallArch("x86", r, d, syscallno, kret)
  ELSE ProcessSyscallArch("x86_64", r, d, syscallno, kret)

\* ~Task(): the session forgets the task; its address space, and with it the
\* emulated files it maps, go with its last task (each task of the model has
\* its own address space).
TasksAfterDelete(ts, t) == ts \ {t}

\* Mutant: the syscall number is read from the first argument register.
ClassifiedSyscallno_Arg1(r) == r.args[1]

\* The syscall number diversion_step hands to process_syscall:
\* t->regs().original_syscallno().
ClassifiedSyscallno(r) == r.original_syscallno

\* Mutant: the task is deleted before it is detached.
HandlePtraceExitEvent_DeleteFirst(t) ==
  /\ task' = [task EXCEPT ![t].did_kill = TRUE, ![t].detached = TRUE]
  /\ tasks' = TasksAfterDelete(tasks, t)
  /\ vms' = TasksAfterDelete(vms, t)
  /\ emu_fs' = TasksAfterDelete(emu_fs, t)
  /\ log' = log \o <<"did_kill", "delete", "detach">>
  /\ uaf' = TRUE

\* handle_ptrace_exit_event(t): did_kill, detach, delete.
HandlePtraceExitEvent(t) ==
  /\ task' = [task EXCEPT ![t].did_kill = TRUE, ![t].detached = TRUE]
  /\ tasks' = TasksAfterDelete(tasks, t)
  /\ vms' = TasksAfterDelete(vms, t)
  /\ emu_fs' = TasksAfterDelete(emu_fs, t)
  /\ log' = log \o <<"did_kill", "detach", "delete">>
  /\ UseTask

\* ------------------------------------------------------------- the steps

StepGhosts == <<start_event, stop_kind, entry_regs, diag>>
StopState == <<regs, desched, stop_sig>>
Params == <<cur, command, signal_to_deliver>>

\* A caller calls diversion_step(t, command, signal_to_deliver) on a task the
\* session owns; no other call is running.  The step reads the registers and
\* the stop state of t only after its resume, so they start as not yet
\* observed; the observations of the previous call are dropped.
CallDiversionStep(t, cmd, sig) ==
  /\ pc \in {"idle", "done"}
  /\ t \in tasks
  /\ pc' = "check_command"
  /\ cur' = t
  /\ command' = cmd
  /\ signal_to_deliver' = sig
  /\ result' = NewDiversionResult
  /\ regs' = NoRegs
  /\ desched' = FALSE
  /\ stop_sig' = 0
  /\ log' = <<>>
  /\ resumes' = <<>>
  /\ injected' = <<>>
  /\ start_event' = task[t].ptrace_event
  /\ stop_kind' = "none"
  /\ entry_regs' = NoRegs
  /\ diag' = NewDiversionResult.break_status
  /\ UNCHANGED <<debug_build, dtor_killed, vms, emu_fs, tasks, task, uaf>>

\* DEBUG_ASSERT(command != RUN_SINGLESTEP_FAST_FORWARD); assert_fully_initialized()
\* (the session of the model is fully initialized).
CheckCommand ==
  /\ pc = "check_command"
  /\ pc' = IF DebugAssertFails(command # RUN_SINGLESTEP_FAST_FORWARD)
           THEN "aborted" ELSE "check_exit_before"
  /\ UNCHANGED <<debug_build, dtor_killed, vms, emu_fs, tasks, task, Params, result, StopState, log,
                 resumes, injected, StepGhosts, uaf>>

\* Mutant: no return after the exit handler.
CheckExitBefore_NoReturn ==
  /\ pc = "check_exit_before"
  /\ IF ExitedBeforeResume(task[cur].ptrace_event)
     THEN /\ HandlePtraceExitEvent(cur)
          /\ result' = [result EXCEPT !.status = DIVERSION_EXITED]
          /\ pc' = "disable_syscallbuf"
     ELSE /\ UseTask
          /\ pc' = "disable_syscallbuf"
          /\ UNCHANGED <<tasks, vms, emu_fs, task, result, log>>
  /\ UNCHANGED <<debug_build, dtor_killed, Params, StopState, resumes, injected, StepGhosts>>

\* "An exit might have occurred while processing a previous syscall."
CheckExitBefore ==
  /\ pc = "check_exit_before"
  /\ IF ExitedBeforeResume(task[cur].ptrace_event)
     THEN /\ HandlePtraceExitEvent(cur)
          /\ result' = [result EXCEPT !.status = DIVERSION_EXITED]
          /\ pc' = "done"
     ELSE /\ UseTask
          /\ pc' = "disable_syscallbuf"
          /\ UNCHANGED <<tasks, vms, emu_fs, task, result, log>>
  /\ UNCHANGED <<debug_build, dtor_killed, Params, StopState, resumes, injected, StepGhosts>>

\* "Disable syscall buffering during diversions".
DisableSyscallBuffering ==
  /\ pc = "disable_syscallbuf"
  /\ task' = [task EXCEPT ![cur] = DisableSyscallbuf(task[cur])]
  /\ log' = log \o DisableSyscallbufLog(task[cur])
  /\ UseTask
  /\ pc' = "resume"
  /\ UNCHANGED <<debug_build, dtor_killed, vms, emu_fs, tasks, Params, result, StopState, resumes,
                 injected, StepGhosts>>

\* What the wait of resume_execution(how, RESUME_WAIT, ...) can report: the
\* process exited, a signal stop, or a syscall-entry stop.
WaitReports(ev, sig, r, d, kind) ==
  \/ /\ kind = "exit"
     /\ ev = PTRACE_EVENT_EXIT /\ sig = 0 /\ r = NoRegs /\ d = FALSE
  \/ /\ kind = "signal"
     /\ ev = NoPtraceEvent /\ sig \in StopSignals /\ r = NoRegs /\ d = FALSE
  \/ /\ kind = "syscall"
     /\ ev = NoPtraceEvent /\ sig = 0
     /\ r \in [original_syscallno : SyscallNumbers, args : ArgTuples,
               syscall_result : EntryResults]
     /\ d \in BOOLEAN
     /\ d => r.original_syscallno = SyscallTable[task[cur].arch].ioctl

\* switch (command): resume_execution and its wait, or FATAL.
ResumeExecution ==
  /\ pc = "resume"
  /\ IF ResumeRequest(command) = "FATAL"
     THEN /\ pc' = "fatal"
          /\ UNCHANGED <<task, StopState, log, resumes, stop_kind, entry_regs, uaf>>
     ELSE /\ pc' = "check_exit_after"
          /\ log' = Append(log, "resume_execution")
          /\ resumes' = Append(resumes,
                 [how |-> ResumeRequest(command), wait |-> "RESUME_WAIT",
                  ticks |-> "RESUME_UNLIMITED_TICKS", sig |-> signal_to_deliver,
                  locked |-> task[cur].syscallbuf_locked,
                  in_diversion |-> task[cur].in_diversion])
          /\ UseTask
          /\ \E kind \in {"exit", "signal", "syscall"} :
               /\ stop_kind' = kind
               /\ \E ev \in {NoPtraceEvent, PTRACE_EVENT_EXIT} :
                    /\ task' = [task EXCEPT ![cur].ptrace_event = ev]
                    /\ WaitReports(ev, stop_sig', regs', desched', kind)
          /\ entry_regs' = regs'
  /\ UNCHANGED <<debug_build, dtor_killed, vms, emu_fs, tasks, Params, result, injected, start_event, diag>>

\* Mutant: no return after the exit handler.
CheckExitAfter_NoReturn ==
  /\ pc = "check_exit_after"
  /\ IF ExitedAfterResume(task[cur].ptrace_event)
     THEN /\ HandlePtraceExitEvent(cur)
          /\ result' = [result EXCEPT !.status = DIVERSION_EXITED]
          /\ pc' = "check_stop_sig"
     ELSE /\ UseTask
          /\ pc' = "check_stop_sig"
          /\ UNCHANGED <<tasks, vms, emu_fs, task, result, log>>
  /\ UNCHANGED <<debug_build, dtor_killed, Params, StopState, resumes, injected, StepGhosts>>

\* The exit check after the resume.
CheckExitAfter ==
  /\ pc = "check_exit_after"
  /\ IF ExitedAfterResume(task[cur].ptrace_event)
     THEN /\ HandlePtraceExitEvent(cur)
          /\ result' = [result EXCEPT !.status = DIVERSION_EXITED]
          /\ pc' = "done"
     ELSE /\ UseTask
          /\ pc' = "check_stop_sig"
          /\ UNCHANGED <<tasks, vms, emu_fs, task, result, log>>
  /\ UNCHANGED <<debug_build, dtor_killed, Params, StopState, resumes, injected, StepGhosts>>

\* result.status = DIVERSION_CONTINUE; if (t->stop_sig()) { ... return result; }
CheckStopSig ==
  /\ pc = "check_stop_sig"
  /\ UseTask
  /\ IF StopSigPending(stop_sig)
     THEN \E bs \in DiagnoseDebuggerTrap(cur, command) :
            /\ diag' = bs
            /\ result' = [status |-> DIVERSION_CONTINUE, break_status |-> bs]
            /\ log' = Append(log, "diagnose_debugger_trap")
            /\ pc' = IF SinglestepAssertion(bs, command) THEN "done" ELSE "fatal"
     ELSE /\ result' = [result EXCEPT !.status = DIVERSION_CONTINUE]
          /\ pc' = "process_syscall"
          /\ UNCHANGED <<diag, log>>
  /\ UNCHANGED <<debug_build, dtor_killed, vms, emu_fs, tasks, task, Params, StopState, resumes, injected,
                 start_event, stop_kind, entry_regs>>

\* process_syscall(t, t->regs().original_syscallno()).
RunProcessSyscall ==
  /\ pc = "process_syscall"
  /\ UseTask
  /\ \E kret \in KernelRets :
       LET eff == ProcessSyscall(task[cur].arch, regs, desched,
                                 ClassifiedSyscallno(regs), kret)
           exits == \E i \in 1..Len(eff.injected) :
                      KernelExits(task[cur].arch, eff.injected[i].no)
       IN /\ regs' = eff.regs
          /\ log' = log \o <<"process_syscall">> \o eff.log
          /\ injected' = injected \o eff.injected
          /\ task' = [task EXCEPT ![cur].ptrace_event =
                                     IF exits THEN PTRACE_EVENT_EXIT ELSE @]
  /\ pc' = "check_watchpoints"
  /\ UNCHANGED <<debug_build, dtor_killed, vms, emu_fs, tasks, Params, result, desched, stop_sig, resumes,
                 StepGhosts>>

\* check_for_watchpoint_changes(t, result.break_status); return result.
RunCheckForWatchpointChanges ==
  /\ pc = "check_watchpoints"
  /\ UseTask
  /\ \E bs \in CheckForWatchpointChanges(cur, result.break_status) :
       result' = [result EXCEPT !.break_status = bs]
  /\ log' = Append(log, "check_for_watchpoint_changes")
  /\ pc' = "done"
  /\ UNCHANGED <<debug_build, dtor_killed, vms, emu_fs, tasks, task, Params, StopState, resumes, injected,
                 StepGhosts>>

\* Session::kill_all_tasks(): every task the session owns is killed and
\* deleted; none is left.
KillAllTasks(ts) == {}

\* Mutant: the destructor does not call kill_all_tasks.
TeardownTasks_NoKill(ts) == ts

\* The tasks left by the destructor's first statement, kill_all_tasks().
TeardownTasks(ts) == KillAllTasks(ts)

\* The two assertions of the destructor, in order:
\* DEBUG_ASSERT(tasks().size() == 0 && vms().size() == 0) and
\* DEBUG_ASSERT(emu_fs->size() == 0).
TeardownAssertionFails(ts, vs, fs) ==
  \/ DebugAssertFails(Cardinality(ts) = 0 /\ Cardinality(vs) = 0)
  \/ DebugAssertFails(Cardinality(fs) = 0)

\* ~DiversionSession(), first statement: kill_all_tasks().  The session is
\* destroyed between calls of diversion_step.  The address spaces and the
\* emulated files of the killed tasks go with them.
DestroySession ==
  /\ pc \in {"idle", "done"}
  /\ pc' = "dtor_assert"
  /\ tasks' = TeardownTasks(tasks)
  /\ vms' = vms \cap tasks'
  /\ emu_fs' = emu_fs \cap tasks'
  /\ dtor_killed' = tasks \ tasks'
  /\ log' = <<"kill_all_tasks">>
  /\ result' = NewDiversionResult
  /\ regs' = NoRegs
  /\ desched' = FALSE
  /\ stop_sig' = 0
  /\ resumes' = <<>>
  /\ injected' = <<>>
  /\ start_event' = NoPtraceEvent
  /\ stop_kind' = "none"
  /\ entry_regs' = NoRegs
  /\ diag' = NewDiversionResult.break_status
  /\ UNCHANGED <<debug_build, task, Params, uaf>>

\* ~DiversionSession(), the assertions after kill_all_tasks().
CheckTeardown ==
  /\ pc = "dtor_assert"
  /\ pc' = IF TeardownAssertionFails(tasks, vms, emu_fs)
           THEN "dtor_aborted" ELSE "destroyed"
  /\ log' = Append(log, "teardown_assertions")
  /\ UNCHANGED <<debug_build, dtor_killed, vms, emu_fs, tasks, task, Params, result,
                 StopState, resumes, injected, StepGhosts, uaf>>

Next ==
  \/ \E t \in TaskIds, cmd \in RunCommands, sig \in DeliverableSignals :
       CallDiversionStep(t, cmd, sig)
  \/ DestroySession
  \/ CheckTeardown
  \/ CheckCommand
  \/ CheckExitBefore
  \/ DisableSyscallBuffering
  \/ ResumeExecution
  \/ CheckExitAfter
  \/ CheckStopSig
  \/ RunProcessSyscall
  \/ RunCheckForWatchpointChanges

Spec == Init /\ [][Next]_vars

TypeOK ==
  /\ tasks \subseteq TaskIds
  /\ pc \in {"idle", "check_command", "check_exit_before", "disable_syscallbuf",
             "resume", "check_exit_after", "check_stop_sig", "process_syscall",
             "check_watchpoints", "done", "aborted", "fatal", "dtor_assert",
             "dtor_aborted", "destroyed"}
  /\ result.status \in {NoStatus, DIVERSION_CONTINUE, DIVERSION_EXITED}
  /\ result.break_status \in BreakStatuses

\* ------------------------------------------------------------- the claims

CurArch == task[cur].arch
OnSyscallPath == stop_kind = "syscall"
Returned == pc = "done"
EntryNo == entry_regs.original_syscallno
HandlerCalls == {"did_kill", "detach", "delete"}
SyscallPathCalls ==
  {"process_syscall", "finish_emulated_syscall", "set_regs", "suppress",
   "remote_open", "remote_syscall", "remote_set_syscall_result", "remote_close",
   "check_for_watchpoint_changes"}
InLog(e) == \E i \in 1..Len(log) : log[i] = e

\* The numbers of the six suppressed syscalls of an architecture, by name.
SuppressedNumbersOf(arch) ==
  {SyscallTable[arch][s] :
     s \in {"ipc", "kill", "rt_sigqueueinfo", "rt_tgsigqueueinfo", "tgkill", "tkill"}}

EntryIsDeschedIoctl == EntryNo = SyscallTable[CurArch].ioctl /\ desched
EntryIsSuppressed == EntryNo \in SuppressedNumbersOf(CurArch)

\* C1: when the task's ptrace event is "process exited" at the start of a
\* step or right after the resume, the step returns DIVERSION_EXITED, the
\* exit handler (did_kill, detach, delete) runs exactly once in that step,
\* and the step makes no use of the task after the handler.
C1_ExitHandledOnce ==
  /\ \A e \in HandlerCalls : Count(log, e) <= 1
  /\ ~uaf
  /\ InLog("delete") =>
       /\ Len(log) >= 3
       /\ SubSeq(log, Len(log) - 2, Len(log)) = <<"did_kill", "detach", "delete">>
       /\ pc = "done"
  /\ (Returned /\ (start_event = PTRACE_EVENT_EXIT \/ stop_kind = "exit")) =>
       /\ result.status = DIVERSION_EXITED
       /\ \A e \in HandlerCalls : Count(log, e) = 1
       /\ cur \notin tasks
       /\ task[cur].did_kill /\ task[cur].detached
  /\ (start_event = PTRACE_EVENT_EXIT /\ command # RUN_SINGLESTEP_FAST_FORWARD) =>
       pc \in {"check_command", "check_exit_before", "done"}
  /\ stop_kind = "exit" => pc \in {"check_exit_after", "done"}

C1_Witness ==
  /\ Returned
  /\ stop_kind = "exit"
  /\ result.status = DIVERSION_EXITED
  /\ Count(log, "delete") = 1
  /\ Count(log, "resume_execution") = 1

\* C2: a step that reaches the entry of a syscall in the suppressed set of
\* the task's architecture opens no remote-syscall injection and issues no
\* syscall; no step ever issues a syscall with a suppressed number.
C2_SuppressedNeverIssued ==
  /\ (OnSyscallPath /\ EntryIsSuppressed) =>
       /\ injected = <<>>
       /\ ~InLog("remote_open")
       /\ ~InLog("remote_syscall")
  /\ \A i \in 1..Len(injected) : injected[i].no \notin SuppressedNumbersOf(CurArch)

C2_Witness ==
  /\ Returned
  /\ OnSyscallPath
  /\ EntryNo = SyscallTable[CurArch].tkill
  /\ InLog("suppress")
  /\ result.status = DIVERSION_CONTINUE

\* C3: for a syscall that is neither the desched ioctl nor suppressed, after
\* the step the syscall-result register holds the value returned by exactly
\* one injected syscall, issued with the original syscall number and the six
\* argument registers as they were at syscall entry.
C3_LiveResult ==
  (pc \in {"check_watchpoints", "done"} /\ OnSyscallPath
     /\ ~EntryIsDeschedIoctl /\ ~EntryIsSuppressed) =>
    /\ Len(injected) = 1
    /\ Count(log, "remote_syscall") = 1
    /\ injected[1].no = EntryNo
    /\ injected[1].args = entry_regs.args
    /\ regs.syscall_result = injected[1].ret
    /\ regs.original_syscallno = EntryNo
    /\ regs.args = entry_regs.args

C3_Witness ==
  /\ Returned
  /\ OnSyscallPath
  /\ Len(injected) = 1
  /\ injected[1].args = <<1, 2, 3, 4, 5, 6>>
  /\ injected[1].ret = 1
  /\ entry_regs.syscall_result # 1
  /\ regs.syscall_result = 1

\* C4 as claimed: every syscall with the architecture's ioctl number leaves
\* the syscall result 0.
C4_AnyIoctlResultZero ==
  (Returned /\ OnSyscallPath /\ EntryNo = SyscallTable[CurArch].ioctl) =>
    regs.syscall_result = 0

\* C4, amended: a syscall with the architecture's ioctl number that the task
\* reports as its desched-event syscall leaves the syscall result 0, whatever
\* its arguments and whatever the result register held at entry.
C4_DeschedIoctlResultZero ==
  (pc \in {"check_watchpoints", "done"} /\ OnSyscallPath /\ EntryIsDeschedIoctl) =>
    /\ regs.syscall_result = 0
    /\ regs.args = entry_regs.args

C4_Witness ==
  /\ Returned
  /\ OnSyscallPath
  /\ EntryIsDeschedIoctl
  /\ entry_regs.syscall_result # 0
  /\ regs.syscall_result = 0
  /\ CurArch = "x86_64"

\* C5: a returned result has break_status.singlestep_complete only when the
\* command was RUN_SINGLESTEP and the task was resumed in single-step mode.
C5_SinglestepCompleteOnlyForSinglestep ==
  (Returned /\ result.break_status.singlestep_complete) =>
    /\ command = RUN_SINGLESTEP
    /\ Len(resumes) = 1
    /\ resumes[1].how = "RESUME_SYSEMU_SINGLESTEP"

C5_Witness ==
  /\ Returned
  /\ result.break_status.singlestep_complete
  /\ command = RUN_SINGLESTEP
  /\ stop_kind = "signal"

\* C6: with a signal pending after the resume the step stays off the syscall
\* path (no classifier, no injected syscall, no finish_emulated_syscall, no
\* watchpoint-change check, registers untouched) and, when it returns, returns
\* DIVERSION_CONTINUE with the break status of diagnose_debugger_trap.
C6_SignalStopSkipsSyscallPath ==
  stop_kind = "signal" =>
    /\ \A e \in SyscallPathCalls : ~InLog(e)
    /\ injected = <<>>
    /\ regs = entry_regs
    /\ Returned =>
         /\ result.status = DIVERSION_CONTINUE
         /\ result.break_status = diag
         /\ Count(log, "diagnose_debugger_trap") = 1

C6_Witness ==
  /\ Returned
  /\ stop_kind = "signal"
  /\ result.status = DIVERSION_CONTINUE
  /\ result.break_status.breakpoint_hit
  /\ log[Len(log)] = "diagnose_debugger_trap"

\* C7: a call with RUN_SINGLESTEP_FAST_FORWARD never returns a result and
\* ends before the task is finalized, the in-diversion flag or the syscallbuf
\* lock is written, or the task is resumed.
C7_FastForwardFailsFast ==
  command = RUN_SINGLESTEP_FAST_FORWARD =>
    /\ ~Returned
    /\ log = <<>>
    /\ cur \in tasks

\* C8 as claimed: the step in which exit_group is attempted returns
\* DIVERSION_EXITED.
C8_ExitGroupStepReturnsExited ==
  (Returned /\ OnSyscallPath /\ EntryNo = SyscallTable[CurArch].exit_group) =>
    result.status = DIVERSION_EXITED

\* C8, amended: the step in which exit_group is attempted executes it live
\* and returns DIVERSION_CONTINUE with the task still owned and its ptrace
\* event now "process exited"; a step called on a task in that state returns
\* DIVERSION_EXITED at its first exit check, without resuming.
C8_ExitReportedByNextStep ==
  /\ (Returned /\ OnSyscallPath /\ EntryNo = SyscallTable[CurArch].exit_group) =>
       /\ result.status = DIVERSION_CONTINUE
       /\ Len(injected) = 1 /\ injected[1].no = EntryNo
       /\ task[cur].ptrace_event = PTRACE_EVENT_EXIT
       /\ cur \in tasks
  /\ (Returned /\ start_event = PTRACE_EVENT_EXIT) =>
       /\ result.status = DIVERSION_EXITED
       /\ resumes = <<>>
       /\ cur \notin tasks

C8_Witness ==
  /\ Returned
  /\ OnSyscallPath
  /\ EntryNo = SyscallTable[CurArch].exit_group
  /\ result.status = DIVERSION_CONTINUE
  /\ task[cur].ptrace_event = PTRACE_EVENT_EXIT

\* The second case of C8, amended: the following step has returned.
C8_WitnessNextStep ==
  /\ Returned
  /\ start_event = PTRACE_EVENT_EXIT
  /\ result.status = DIVERSION_EXITED
  /\ resumes = <<>>

\* C9 as claimed: every call that returns has resumed the tracee.
C9_EveryStepResumes == Returned => Len(resumes) >= 1

\* C9, amended: a call that returns has resumed the tracee at least once,
\* unless the task's ptrace event was already "process exited" when it was
\* called, in which case it returns DIVERSION_EXITED without resuming.
C9_ResumesUnlessExitedAtStart ==
  Returned =>
    /\ start_event # PTRACE_EVENT_EXIT => Len(resumes) >= 1
    /\ start_event = PTRACE_EVENT_EXIT =>
         (Len(resumes) = 0 /\ result.status = DIVERSION_EXITED)
    /\ Count(log, "resume_execution") = Len(resumes)

C9_Witness ==
  /\ Returned
  /\ start_event # PTRACE_EVENT_EXIT
  /\ Len(resumes) = 1
  /\ resumes[1].wait = "RESUME_WAIT"
  /\ stop_kind = "syscall"

\* C10: at every resume of the tracee the syscall buffer is locked and, when
\* the task has preload globals, the in-diversion flag is 1; both writes come
\* before the resume call in the step.
C10_FlagsSetBeforeResume ==
  /\ \A i \in 1..Len(resumes) :
       /\ resumes[i].locked = 1
       /\ task[cur].preload_globals => resumes[i].in_diversion = 1
  /\ Precedes(log, "set_syscallbuf_locked", "resume_execution")
  /\ task[cur].preload_globals =>
       Precedes(log, "write_in_diversion", "resume_execution")
  /\ ~task[cur].preload_globals => ~InLog("write_in_diversion")

C10_Witness ==
  /\ Len(resumes) = 1
  /\ task[cur].preload_globals
  /\ resumes[1].locked = 1
  /\ resumes[1].in_diversion = 1
  /\ start_event = NoPtraceEvent
  /\ pc = "check_exit_after"

\* C11: the destructor terminates every owned task before its emptiness
\* assertions are evaluated (they are evaluated with no task owned), and a
\* session destroyed with no owned task and no emulated-filesystem entry is
\* destroyed without an assertion failure.
C11_TeardownKillsBeforeAsserting ==
  /\ pc \in {"dtor_assert", "destroyed", "dtor_aborted"} =>
       /\ tasks = {}
       /\ log[1] = "kill_all_tasks"
       /\ Precedes(log, "kill_all_tasks", "teardown_assertions")
  /\ (pc \in {"dtor_assert", "destroyed", "dtor_aborted"}
        /\ dtor_killed = {} /\ emu_fs = {}) => pc # "dtor_aborted"
  /\ InLog("teardown_assertions") => pc \in {"destroyed", "dtor_aborted"}

C11_Witness ==
  /\ pc = "destroyed"
  /\ debug_build
  /\ dtor_killed # {}
  /\ log = <<"kill_all_tasks", "teardown_assertions">>

\* The second case of C11: a session destroyed with no task left.
C11_WitnessNoTasks ==
  /\ pc = "destroyed"
  /\ debug_build
  /\ dtor_killed = {}

\* The step has run the classifier (it is at or past process_syscall's return).
Classified == pc \in {"check_watchpoints", "done"} /\ OnSyscallPath
OtherArch == IF CurArch = "x86" THEN "x86_64" ELSE "x86"
TreatedAsEmulated == InLog("set_regs")
TreatedAsSuppressed == InLog("suppress")
TreatedAsLive == InLog("remote_syscall")
Treatments ==
  Cardinality({k \in {"emulated", "suppressed", "live"} :
                 \/ k = "emulated" /\ TreatedAsEmulated
                 \/ k = "suppressed" /\ TreatedAsSuppressed
                 \/ k = "live" /\ TreatedAsLive})

\* C12: for a suppressed syscall the classifier leaves the task as it was at
\* syscall entry (no finish_emulated_syscall, no register write, the same
\* syscall result, nothing injected), and the step still returns
\* DIVERSION_CONTINUE.
C12_SuppressedLeavesTaskUnchanged ==
  (Classified /\ EntryIsSuppressed) =>
    /\ regs = entry_regs
    /\ regs.syscall_result = entry_regs.syscall_result
    /\ ~InLog("finish_emulated_syscall")
    /\ ~InLog("set_regs")
    /\ ~InLog("remote_set_syscall_result")
    /\ task[cur].ptrace_event = NoPtraceEvent
    /\ cur \in tasks
    /\ result.status = DIVERSION_CONTINUE

C12_Witness ==
  /\ Returned
  /\ OnSyscallPath
  /\ EntryNo = SyscallTable[CurArch].kill
  /\ entry_regs.syscall_result = 7
  /\ regs.syscall_result = 7
  /\ result.status = DIVERSION_CONTINUE

\* C13: the desched-event ioctl (the ioctl number of the task's architecture,
\* reported by the task as its desched-event syscall) is not executed live:
\* nothing is injected, the emulated syscall is marked finished once, the
\* syscall result is 0, and neither the suppressed list nor the live
\* execution is applied to it.
C13_DeschedIoctlEmulated ==
  (Classified /\ EntryIsDeschedIoctl) =>
    /\ injected = <<>>
    /\ ~InLog("remote_open") /\ ~InLog("remote_syscall")
    /\ ~InLog("suppress")
    /\ Count(log, "finish_emulated_syscall") = 1
    /\ Count(log, "set_regs") = 1
    /\ Precedes(log, "finish_emulated_syscall", "set_regs")
    /\ regs = [entry_regs EXCEPT !.syscall_result = 0]

C13_Witness ==
  /\ Returned
  /\ OnSyscallPath
  /\ EntryIsDeschedIoctl
  /\ CurArch = "x86"
  /\ injected = <<>>
  /\ InLog("finish_emulated_syscall")
  /\ regs.syscall_result = 0

\* C14: on the syscall path the step runs the classifier once, on the number
\* in the original-syscall register, then the watchpoint-change check once, on
\* the result's break status, and then returns DIVERSION_CONTINUE.
C14_SyscallPathOrder ==
  /\ Classified =>
       /\ Count(log, "process_syscall") = 1
       /\ TreatedAsSuppressed <=> EntryIsSuppressed
       /\ TreatedAsEmulated <=> EntryIsDeschedIoctl
       /\ TreatedAsLive => (Len(injected) = 1 /\ injected[1].no = EntryNo)
  /\ Precedes(log, "resume_execution", "process_syscall")
  /\ Precedes(log, "process_syscall", "check_for_watchpoint_changes")
  /\ (Returned /\ OnSyscallPath) =>
       /\ Count(log, "check_for_watchpoint_changes") = 1
       /\ log[Len(log)] = "check_for_watchpoint_changes"
       /\ result.status = DIVERSION_CONTINUE
       /\ ~result.break_status.breakpoint_hit
       /\ ~result.break_status.singlestep_complete
  /\ (pc = "check_watchpoints") =>
       (~InLog("check_for_watchpoint_changes")
          /\ result.break_status = NewDiversionResult.break_status)

C14_Witness ==
  /\ Returned
  /\ OnSyscallPath
  /\ result.status = DIVERSION_CONTINUE
  /\ result.break_status.watchpoints_hit
  /\ Count(log, "process_syscall") = 1
  /\ log[Len(log)] = "check_for_watchpoint_changes"

\* C15: at the switch on command, RUN_CONTINUE resumes with RESUME_SYSEMU and
\* RUN_SINGLESTEP with RESUME_SYSEMU_SINGLESTEP, both waiting, with unlimited
\* ticks and with signal_to_deliver as passed in; any other command ends in
\* FATAL there and the task is never resumed.
C15_ResumeModeFromCommand ==
  /\ \A i \in 1..Len(resumes) :
       /\ command = RUN_CONTINUE => resumes[i].how = "RESUME_SYSEMU"
       /\ command = RUN_SINGLESTEP => resumes[i].how = "RESUME_SYSEMU_SINGLESTEP"
       /\ command \in {RUN_CONTINUE, RUN_SINGLESTEP}
       /\ resumes[i].wait = "RESUME_WAIT"
       /\ resumes[i].ticks = "RESUME_UNLIMITED_TICKS"
       /\ resumes[i].sig = signal_to_deliver
  /\ command \notin {RUN_CONTINUE, RUN_SINGLESTEP} =>
       /\ resumes = <<>>
       /\ ~InLog("resume_execution")
       /\ stop_kind = "none"
       /\ InLog("set_syscallbuf_locked") => pc \in {"resume", "fatal"}
  /\ (pc = "fatal" /\ resumes = <<>>) => command \notin {RUN_CONTINUE, RUN_SINGLESTEP}

C15_Witness ==
  /\ Len(resumes) = 1
  /\ command = RUN_SINGLESTEP
  /\ resumes[1].how = "RESUME_SYSEMU_SINGLESTEP"
  /\ resumes[1].sig = 10
  /\ signal_to_deliver = 10

\* The other case of C15: an illegal command at the switch.
C15_WitnessFatal ==
  /\ pc = "fatal"
  /\ command = RUN_SINGLESTEP_FAST_FORWARD
  /\ resumes = <<>>

\* C16: the exit handler calls did_kill, then detach, then deletes the task,
\* each once and in that order, and nothing uses the task after the delete.
C16_ExitHandlerOrder ==
  /\ \A i \in 1..Len(log) :
       /\ log[i] = "did_kill" =>
            /\ i + 2 = Len(log)
            /\ log[i + 1] = "detach"
            /\ log[i + 2] = "delete"
       /\ log[i] = "detach" => (i > 1 /\ log[i - 1] = "did_kill")
       /\ log[i] = "delete" => (i > 2 /\ log[i - 1] = "detach" /\ i = Len(log))
  /\ InLog("delete") =>
       /\ cur \notin tasks
       /\ task[cur].did_kill
       /\ task[cur].detached
  /\ ~uaf

C16_Witness ==
  /\ Returned
  /\ start_event = PTRACE_EVENT_EXIT
  /\ log = <<"did_kill", "detach", "delete">>
  /\ cur \notin tasks
  /\ ~uaf

\* C17: the treatment of a syscall number follows the constants of the
\* task's own architecture: a number that names a suppressed syscall for the
\* task's architecture is suppressed, and a number that names a suppressed
\* syscall only for the other architecture is executed live.
C17_ClassifiedByTaskArch ==
  Classified =>
    /\ EntryNo \in SuppressedNumbersOf(CurArch) =>
         (TreatedAsSuppressed /\ injected = <<>>)
    /\ (EntryNo \in SuppressedNumbersOf(OtherArch)
          /\ EntryNo \notin SuppressedNumbersOf(CurArch)
          /\ ~EntryIsDeschedIoctl) =>
         (~TreatedAsSuppressed /\ Len(injected) = 1 /\ injected[1].no = EntryNo)
    /\ (EntryNo = SyscallTable[OtherArch].ioctl) =>
         (TreatedAsLive /\ ~TreatedAsEmulated)

C17_Witness ==
  /\ Returned
  /\ OnSyscallPath
  /\ CurArch = "x86_64"
  /\ EntryNo = SyscallTable["x86"].kill
  /\ Len(injected) = 1
  /\ injected[1].no = SyscallTable["x86"].kill

\* The same number on a task of the architecture where it names kill.
C17_WitnessSuppressed ==
  /\ Returned
  /\ OnSyscallPath
  /\ CurArch = "x86"
  /\ EntryNo = SyscallTable["x86"].kill
  /\ TreatedAsSuppressed
  /\ injected = <<>>

\* C18: a returned status is DIVERSION_CONTINUE or DIVERSION_EXITED, and it is
\* DIVERSION_EXITED exactly when this call ran the exit handler on the task;
\* with DIVERSION_CONTINUE the call has not detached or freed the task.
C18_ExitedIffHandlerRan ==
  Returned =>
    /\ result.status \in {DIVERSION_CONTINUE, DIVERSION_EXITED}
    /\ result.status = DIVERSION_EXITED <=> InLog("delete")
    /\ result.status = DIVERSION_CONTINUE =>
         /\ \A e \in HandlerCalls : ~InLog(e)
         /\ cur \in tasks
         /\ ~task[cur].detached
         /\ ~task[cur].did_kill

C18_Witness ==
  /\ Returned
  /\ result.status = DIVERSION_CONTINUE
  /\ stop_kind = "signal"
  /\ cur \in tasks
  /\ ~task[cur].detached

\* C19: a step called on a task that has already exited does nothing but run
\* the exit handler: no in-diversion write, no syscallbuf lock, no resume (so
\* no signal delivered), no trap classifier and no syscall classifier.
C19_ExitedAtStartOnlyHandler ==
  start_event = PTRACE_EVENT_EXIT =>
    /\ log \in {<<>>, <<"did_kill", "detach", "delete">>}
    /\ resumes = <<>>
    /\ injected = <<>>
    /\ regs = NoRegs
    /\ stop_sig = 0
    /\ stop_kind = "none"
    /\ result.break_status = NewDiversionResult.break_status
    /\ Returned => log = <<"did_kill", "detach", "delete">>

C19_Witness ==
  /\ Returned
  /\ start_event = PTRACE_EVENT_EXIT
  /\ signal_to_deliver = 10
  /\ resumes = <<>>
  /\ task[cur].preload_globals
  /\ ~InLog("write_in_diversion")
  /\ ~InLog("set_syscallbuf_locked")

\* C20: a step that reaches the syscall path applies exactly one treatment
\* to the syscall (result 0 emulated, suppressed, or executed live), and no
\* step injects more than one syscall.
C20_OneTreatment ==
  /\ Len(injected) <= 1
  /\ Count(log, "remote_syscall") = Len(injected)
  /\ Count(log, "remote_open") = Len(injected)
  /\ Classified =>
       /\ Treatments = 1
       /\ Count(log, "process_syscall") = 1
       /\ TreatedAsLive <=> Len(injected) = 1
       /\ TreatedAsEmulated => regs.syscall_result = 0
  /\ ~OnSyscallPath => (Treatments = 0 /\ injected = <<>>)
  /\ pc = "process_syscall" => Treatments = 0

C20_Witness ==
  /\ Returned
  /\ OnSyscallPath
  /\ Treatments = 1
  /\ TreatedAsLive
  /\ Len(injected) = 1
  /\ injected[1].args = <<6, 5, 4, 3, 2, 1>>

====
